---- MODULE Spec2Model ----
(***************************************************************************)
(* Model of src/app.py: the Coursera transcript summarizer.                *)
(*                                                                         *)
(* Python strings are sequences of one-character strings.  An optional     *)
(* value (Python None / a value) is a sequence of length 0 or 1.           *)
(* The PDF is modelled by its story, the block sequence handed to          *)
(* doc.build; the layout and the bytes of the document are reportlab's.    *)
(***************************************************************************)
EXTENDS Integers, Sequences, FiniteSets, TLC

(***************************************************************************)
(* Bounds of the model.                                                    *)
(***************************************************************************)
MaxTokens == 4

(***************************************************************************)
(* Python str primitives used by the program.                              *)
(***************************************************************************)
None == <<>>

Some(v) == <<v>>

\* the whitespace str.strip() and the regex class \s agree on
Whitespace == {" ", "\t", "\n", "\r"}

UpperLetters == <<"A","B","C","D","E","F","G","H","I","J","K","L","M",
                  "N","O","P","Q","R","S","T","U","V","W","X","Y","Z">>

LowerLetters == <<"a","b","c","d","e","f","g","h","i","j","k","l","m",
                  "n","o","p","q","r","s","t","u","v","w","x","y","z">>

\* str.lower() on one character
LowerChar(c) ==
    IF \E i \in 1..26 : UpperLetters[i] = c
    THEN LowerLetters[CHOOSE i \in 1..26 : UpperLetters[i] = c]
    ELSE c

\* str.lower()
Lower(s) == [i \in 1..Len(s) |-> LowerChar(s[i])]

\* s[n:]
Drop(s, n) == SubSeq(s, n + 1, Len(s))

\* str.startswith(p)
StartsWith(s, p) == Len(s) >= Len(p) /\ SubSeq(s, 1, Len(p)) = p

RECURSIVE LStrip(_)
LStrip(s) ==
    IF s # <<>> /\ Head(s) \in Whitespace THEN LStrip(Tail(s)) ELSE s

RECURSIVE RStrip(_)
RStrip(s) ==
    IF s # <<>> /\ s[Len(s)] \in Whitespace
    THEN RStrip(SubSeq(s, 1, Len(s) - 1))
    ELSE s

\* str.strip()
Strip(s) == RStrip(LStrip(s))

\* str.split("\n"): the pieces between the separators, empty pieces kept
RECURSIVE SplitFrom(_, _, _)
SplitFrom(s, sep, cur) ==
    IF s = <<>> THEN <<cur>>
    ELSE IF Head(s) = sep THEN <<cur>> \o SplitFrom(Tail(s), sep, <<>>)
    ELSE SplitFrom(Tail(s), sep, Append(cur, Head(s)))

Split(s, sep) == SplitFrom(s, sep, <<>>)

\* str.replace(old, new): every non-overlapping occurrence, left to right
RECURSIVE Replace(_, _, _)
Replace(s, old, new) ==
    IF s = <<>> THEN <<>>
    ELSE IF StartsWith(s, old) THEN new \o Replace(Drop(s, Len(old)), old, new)
    ELSE <<Head(s)>> \o Replace(Tail(s), old, new)

(***************************************************************************)
(* The regular expressions of create_pdf.                                  *)
(***************************************************************************)
\* the character U+2022 (BULLET)
U2022 == "u2022"

BulletChars == {"*", "-", U2022}

RECURSIVE DropWhile(_, _)
DropWhile(s, set) ==
    IF s # <<>> /\ Head(s) \in set THEN DropWhile(Tail(s), set) ELSE s

\* as SubBulletMarker, with the whitespace inside the character class
SubBulletMarkerWide(line) == DropWhile(line, BulletChars \cup Whitespace)

\* re.sub(r"^[\*\-\u2022]+\s*", "", line): a leading run of one or more bullet
\* characters and the whitespace after it is removed
SubBulletMarker(line) ==
    IF line # <<>> /\ Head(line) \in BulletChars
    THEN DropWhile(DropWhile(line, BulletChars), Whitespace)
    ELSE line

Stars == <<"*", "*">>

BoldOpen == <<"<", "b", ">">>

BoldClose == <<"<", "/", "b", ">">>

\* the length of the shortest (.*?) after an opening ** that is followed by
\* a closing **, or -1; "." does not match a newline
RECURSIVE LazyGroup(_, _)
LazyGroup(s, k) ==
    IF StartsWith(Drop(s, k), Stars) THEN k
    ELSE IF k >= Len(s) \/ s[k + 1] = "\n" THEN -1
    ELSE LazyGroup(s, k + 1)

\* re.sub(r"\*\*(.*?)\*\*", r"<b>\1</b>", s): leftmost matches, scanning on
\* after each match
RECURSIVE SubBold(_)
SubBold(s) ==
    IF s = <<>> THEN <<>>
    ELSE IF StartsWith(s, Stars) /\ LazyGroup(Drop(s, 2), 0) >= 0
    THEN LET k == LazyGroup(Drop(s, 2), 0)
         IN  BoldOpen \o SubSeq(s, 3, 2 + k) \o BoldClose
                 \o SubBold(Drop(s, k + 4))
    ELSE <<Head(s)>> \o SubBold(Tail(s))

(***************************************************************************)
(* create_pdf: the story (block sequence) built from the summary text.     *)
(***************************************************************************)
RefusalPhrase ==
    <<"p","l","e","a","s","e"," ","p","r","o","v","i","d","e"," ",
      "t","h","e"," ","t","r","a","n","s","c","r","i","p","t">>

Paragraph(text, style) == [kind |-> style, text |-> text]

Spacer == [kind |-> "Spacer", text |-> <<>>]

HeadingMarker == <<"#", "#">>

Bullet == <<U2022, " ">>

IsBulletLine(line) ==
    \/ StartsWith(line, <<"*", " ">>)
    \/ StartsWith(line, <<"-", " ">>)
    \/ StartsWith(line, <<U2022, " ">>)

\* as IsDropped, without .lower()
IsDroppedExactCase(line) == line = <<>> \/ StartsWith(line, RefusalPhrase)

\* if not line or line.lower().startswith("please provide the transcript")
IsDropped(line) == line = <<>> \/ StartsWith(Lower(line), RefusalPhrase)

\* the body of the loop over the lines: the blocks one line appends
LineBlocks(raw) ==
    LET line == Strip(raw)
    IN  IF IsDropped(line)
        THEN <<>>
        ELSE IF StartsWith(line, HeadingMarker)
        THEN <<Paragraph(Strip(Replace(line, HeadingMarker, <<>>)), "Heading2")>>
        ELSE IF IsBulletLine(line)
        THEN <<Paragraph(Bullet \o SubBold(Strip(SubBulletMarker(line))),
                         "BulletStyle")>>
        ELSE <<Paragraph(SubBold(line), "BodyText")>>

RECURSIVE StoryOf(_)
StoryOf(lines) ==
    IF lines = <<>> THEN <<>>
    ELSE LineBlocks(Head(lines)) \o StoryOf(Tail(lines))

create_pdf(summary_text) ==
    StoryOf(Split(Strip(summary_text), "\n")) \o <<Spacer>>

(***************************************************************************)
(* summarize_full_text: one POST of the prompt, the reply turned into the  *)
(* returned string.  A response is None when requests.post raised (no      *)
(* connection), else its status code and body text.                        *)
(***************************************************************************)
HTTP_OK == 200

\* the fixed instruction lines of the prompt, as one symbol
INSTRUCTIONS == "Summarize the following Coursera transcript ..."

TripleQuote == <<"\"", "\"", "\"">>

\* the f-string of the prompt
Prompt(text) ==
    <<INSTRUCTIONS>> \o TripleQuote \o <<"\n">> \o text \o <<"\n">>
        \o TripleQuote

Payload(text) ==
    [model |-> "meta-llama/llama-4-scout-17b-16e-instruct",
     messages |-> <<[role |-> "user", content |-> Prompt(text)]>>]

Digit == <<"0", "1", "2", "3", "4", "5", "6", "7", "8", "9">>

\* str(n) of a natural number
RECURSIVE IntToStr(_)
IntToStr(n) ==
    IF n < 10 THEN <<Digit[n + 1]>>
    ELSE IntToStr(n \div 10) \o <<Digit[(n % 10) + 1]>>

\* response.json()["choices"][0]["message"]["content"]: a body "{" content "}"
\* stands for a JSON document holding that content; any other body does not
\* parse (None: the expression raises)
JsonContent(body) ==
    IF Len(body) >= 2 /\ body[1] = "{" /\ body[Len(body)] = "}"
    THEN Some(SubSeq(body, 2, Len(body) - 1))
    ELSE None

ErrorTag == <<"E", "R", "R", "O", "R">>

\* as StatusIsOk, taking every 2xx status
StatusIs2xx(status_code) == status_code \div 100 = 2

\* the status test of summarize_full_text
StatusIsOk(status_code) == status_code = HTTP_OK

\* the returned string is value; raised tells that the call raised instead
summarize_full_text(text, response) ==
    IF response = None
    THEN [raised |-> TRUE, value |-> <<>>]
    ELSE IF StatusIsOk(response[1].status_code)
    THEN IF JsonContent(response[1].text) = None
         THEN [raised |-> TRUE, value |-> <<>>]
         ELSE [raised |-> FALSE, value |-> JsonContent(response[1].text)[1]]
    ELSE [raised |-> FALSE,
          value |-> ErrorTag \o <<":", " ">>
                        \o IntToStr(response[1].status_code)
                        \o <<" ", "-", " ">> \o response[1].text]

(***************************************************************************)
(* The main workflow: one run of the script.                               *)
(*   file     the uploaded transcript, or None                             *)
(*   name     the text of the file-name field                              *)
(*   clicked  the regenerate button was clicked for this run               *)
(*   ss       st.session_state before the run                              *)
(*   response what the remote API answers if it is asked                   *)
(* The result is st.session_state after the run and what the run did.      *)
(***************************************************************************)
\* as EnsureSlot, without the membership test
EnsureSlotResets(ss) == [present |-> TRUE, full_summary_cached |-> None]

\* if "full_summary_cached" not in st.session_state: ... = None
EnsureSlot(ss) ==
    IF ss.present THEN ss ELSE [present |-> TRUE, full_summary_cached |-> None]

\* as CacheIsEmpty, the cache never consulted
CacheIsEmptyAlways(ss) == TRUE

\* as CacheIsEmpty, by truthiness: if not st.session_state.full_summary_cached
CacheIsFalsy(ss) ==
    ss.full_summary_cached = None \/ ss.full_summary_cached = Some(<<>>)

\* if st.session_state.full_summary_cached is None
CacheIsEmpty(ss) == ss.full_summary_cached = None

\* as IsErrorString, with the tag in another case
IsErrorStringTitle(summary) == StartsWith(summary, <<"E", "r", "r", "o", "r">>)

\* if summary.startswith("ERROR")
IsErrorString(summary) == StartsWith(summary, ErrorTag)

\* st.session_state.full_summary_cached = summary
StoreSummary(ss, summary) == [ss EXCEPT !.full_summary_cached = Some(summary)]

\* as ClearSummary, the slot left as it is
ClearSummaryKeeps(ss) == ss

\* st.session_state.full_summary_cached = None
ClearSummary(ss) == [ss EXCEPT !.full_summary_cached = None]

DefaultName == <<"s", "u", "m", "m", "a", "r", "y">>

\* f"{pdf_name.strip() or 'summary'}.pdf"
FileName(name) ==
    (IF Strip(name) = <<>> THEN DefaultName ELSE Strip(name))
        \o <<".", "p", "d", "f">>

NoRun ==
    [outcome |-> "none", trigger |-> "none", requests |-> 0, sent |-> None,
     response |-> None, returned |-> None, error |-> None, shown |-> None,
     pdf |-> None, file_name |-> None]

\* from the text area on: the summary is shown, then regenerate or the PDF
ShowSummary(summary, name, clicked, ss, base) ==
    IF clicked
    THEN [ss |-> ClearSummary(ss),
          run |-> [base EXCEPT !.outcome = "rerun", !.shown = Some(summary)]]
    ELSE [ss |-> ss,
          run |-> [base EXCEPT !.outcome = "done", !.shown = Some(summary),
                               !.pdf = Some(create_pdf(summary)),
                               !.file_name = Some(FileName(name))]]

MainWorkflow(file, name, clicked, ss, response) ==
    IF file = None
    THEN [ss |-> ss, run |-> [NoRun EXCEPT !.outcome = "idle"]]
    ELSE
      LET transcript == file[1]
          ss1 == EnsureSlot(ss)
      IN  IF CacheIsEmpty(ss1)
          THEN LET r == summarize_full_text(transcript, response)
                   called == [NoRun EXCEPT !.requests = 1,
                                           !.sent = Some(Payload(transcript)),
                                           !.response = response]
               IN  IF r.raised
                   THEN [ss |-> ss1,
                         run |-> [called EXCEPT !.outcome = "exception"]]
                   ELSE IF IsErrorString(r.value)
                   THEN [ss |-> ss1,
                         run |-> [called EXCEPT !.outcome = "stopped",
                                                !.returned = Some(r.value),
                                                !.error = Some(r.value)]]
                   ELSE ShowSummary(r.value, name, clicked,
                                    StoreSummary(ss1, r.value),
                                    [called EXCEPT !.returned = Some(r.value)])
          ELSE ShowSummary(ss1.full_summary_cached[1], name, clicked, ss1,
                           NoRun)


(***************************************************************************)
(* State.                                                                  *)
(*   uploaded_file : the file in the uploader, None or its decoded text    *)
(*   pdf_name      : the text of the file-name field                       *)
(*   session_state : st.session_state; present tells whether the key       *)
(*                   full_summary_cached exists                            *)
(*   run           : what the last script run did and put on the page      *)
(*   text_in, story_out : the argument of a create_pdf call made on its    *)
(*                   own and the story it built (None before the call)     *)
(***************************************************************************)
VARIABLES uploaded_file, pdf_name, session_state, run, text_in, story_out

vars == <<uploaded_file, pdf_name, session_state, run, text_in, story_out>>

appVars == <<uploaded_file, pdf_name, session_state, run>>

(***************************************************************************)
(* The inputs of the workflow.                                             *)
(***************************************************************************)
Transcripts == { <<"x">>, <<"y">> }

Names == { DefaultName, <<" ">>, <<" ", "n">> }

\* the message contents the model may return
Contents ==
    { <<"#", "#", " ", "a">>,
      <<"*", " ", "*", "*", "a", "*", "*", "\n", "b">>,
      <<"E", "R", "R", "O", "R", "S", " ", "a">>,
      <<>> }

ErrorBodies == { <<"d", "e", "n", "y">>, <<>> }

Responses ==
    {None} \cup
    { Some([status_code |-> c, text |-> t]) :
        c \in {200, 201, 404, 500},
        t \in ErrorBodies \cup { <<"{">> \o k \o <<"}">> : k \in Contents } }

Init ==
    /\ uploaded_file = None
    /\ pdf_name = DefaultName
    /\ session_state = [present |-> FALSE, full_summary_cached |-> None]
    /\ run = NoRun
    /\ text_in = <<>>
    /\ story_out = None

\* a script run caused by the event trigger on the widget values file, name
ScriptRun(trigger, file, name) ==
    \E response \in Responses :
        LET res == MainWorkflow(file, name, trigger = "regenerate",
                                session_state, response)
        IN  /\ session_state' = res.ss
            /\ run' = [res.run EXCEPT !.trigger = trigger]
            /\ uploaded_file' = file
            /\ pdf_name' = name
            /\ UNCHANGED <<text_in, story_out>>

\* st.rerun() was called: the script runs again before any interaction
RerunPending == run.outcome = "rerun"

Upload ==
    /\ ~RerunPending
    /\ \E t \in Transcripts : ScriptRun("upload", Some(t), pdf_name)

RemoveFile ==
    /\ ~RerunPending
    /\ uploaded_file # None
    /\ ScriptRun("remove", None, pdf_name)

EditFilename ==
    /\ ~RerunPending
    /\ \E n \in Names : ScriptRun("edit", uploaded_file, n)

\* the regenerate button is on the page when the last run reached it
ClickRegenerate ==
    /\ run.outcome = "done"
    /\ ScriptRun("regenerate", uploaded_file, pdf_name)

\* the download button is on the page when the last run reached it
ClickDownload ==
    /\ run.outcome = "done"
    /\ ScriptRun("download", uploaded_file, pdf_name)

Rerun ==
    /\ RerunPending
    /\ ScriptRun("rerun", uploaded_file, pdf_name)

Next ==
    \/ Upload
    \/ RemoveFile
    \/ EditFilename
    \/ ClickRegenerate
    \/ ClickDownload
    \/ Rerun

Spec == Init /\ [][Next]_vars

(***************************************************************************)
(* Summary texts: up to MaxTokens pieces of markdown-ish model output.     *)
(***************************************************************************)
RefusalLine ==
    <<"P","l","e","a","s","e"," ","p","r","o","v","i","d","e"," ",
      "t","h","e"," ","t","r","a","n","s","c","r","i","p","t">>

Tokens ==
    { <<"#", "#", " ">>, <<"*", " ">>, <<"-", " ">>, <<U2022, " ">>,
      <<"*", "*">>, <<"*", "*", "a", "*", "*">>, <<"a">>, <<" ">>, <<"\n">>,
      RefusalLine }

RECURSIVE Flatten(_)
Flatten(ts) == IF ts = <<>> THEN <<>> ELSE Head(ts) \o Flatten(Tail(ts))

SummaryTexts ==
    { Flatten(ts) : ts \in UNION { [1..n -> Tokens] : n \in 0..MaxTokens } }

(***************************************************************************)
(* Specification of the renderer alone: any summary text, then the call.   *)
(***************************************************************************)
RenderInit ==
    /\ uploaded_file = None
    /\ pdf_name = DefaultName
    /\ session_state = [present |-> FALSE, full_summary_cached |-> None]
    /\ run = NoRun
    /\ text_in \in SummaryTexts
    /\ story_out = None

Render ==
    /\ story_out = None
    /\ story_out' = Some(create_pdf(text_in))
    /\ UNCHANGED <<text_in, appVars>>

RenderNext == Render

RenderSpec == RenderInit /\ [][RenderNext]_vars

(***************************************************************************)
(* What the specification says of the renderer, stated on the lines.       *)
(***************************************************************************)
RECURSIVE SelectLines(_)
SelectLines(lines) ==
    IF lines = <<>> THEN <<>>
    ELSE LET l == Strip(Head(lines))
         IN  IF l = <<>> \/ StartsWith(Lower(l), RefusalPhrase)
             THEN SelectLines(Tail(lines))
             ELSE <<l>> \o SelectLines(Tail(lines))

\* the trimmed lines of a text that are neither blank nor a refusal
Kept(text) == SelectLines(Split(text, "\n"))

KindOf(line) ==
    IF StartsWith(line, <<"#", "#">>) THEN "Heading2"
    ELSE IF Len(line) >= 2 /\ line[1] \in {"*", "-", U2022} /\ line[2] = " "
    THEN "BulletStyle"
    ELSE "BodyText"

\* the number of non-overlapping occurrences of ** in s
RECURSIVE CountStars(_)
CountStars(s) ==
    IF Len(s) < 2 THEN 0
    ELSE IF StartsWith(s, Stars) THEN 1 + CountStars(Drop(s, 2))
    ELSE CountStars(Tail(s))

\* the inline tags of s are <b> and </b> in turn, starting with <b>
RECURSIVE TagsPaired(_, _)
TagsPaired(s, open) ==
    IF s = <<>> THEN ~open
    ELSE IF StartsWith(s, BoldOpen) THEN ~open /\ TagsPaired(Drop(s, 3), TRUE)
    ELSE IF StartsWith(s, BoldClose) THEN open /\ TagsPaired(Drop(s, 4), FALSE)
    ELSE TagsPaired(Tail(s), open)

\* the text a tagged string was made from: each tag back to **
Untag(s) == Replace(Replace(s, BoldClose, Stars), BoldOpen, Stars)

Story == story_out[1]

Rendered == story_out # None

\* C7: a line that begins with "## " gives one heading block whose text is
\* the line without the leading marker, the rest of the line unchanged
C7_HeadingMarkerOnly ==
    Rendered =>
        \A i \in 1..Len(Kept(text_in)) :
            LET line == Kept(text_in)[i]
            IN  StartsWith(line, <<"#", "#", " ">>) =>
                    /\ i <= Len(Story)
                    /\ Story[i].kind = "Heading2"
                    /\ Story[i].text = Strip(Drop(line, 3))

\* C8 as stated: a bullet line gives one bullet block whose text is the line
\* without its marker, each paired **text** rewritten to <b>text</b>
C8_BulletTextIsRemainder ==
    Rendered =>
        \A i \in 1..Len(Kept(text_in)) :
            LET line == Kept(text_in)[i]
            IN  KindOf(line) = "BulletStyle" =>
                    /\ i <= Len(Story)
                    /\ Story[i].kind = "BulletStyle"
                    /\ Untag(Story[i].text) = Strip(Drop(line, 1))
                    /\ TagsPaired(Story[i].text, FALSE)
                    /\ CountStars(Story[i].text) <= 1

\* C8 amended: a bullet line gives one bullet block whose text is the
\* bullet "u2022 " followed by the line without its marker and the
\* whitespace after it, each paired **text** rewritten to <b>text</b> and
\* all other text kept
C8_BulletBlock ==
    Rendered =>
        \A i \in 1..Len(Kept(text_in)) :
            LET line == Kept(text_in)[i]
            IN  KindOf(line) = "BulletStyle" =>
                    /\ i <= Len(Story)
                    /\ Story[i].kind = "BulletStyle"
                    /\ StartsWith(Story[i].text, <<U2022, " ">>)
                    /\ Untag(Drop(Story[i].text, 2)) = Strip(Drop(line, 1))
                    /\ TagsPaired(Drop(Story[i].text, 2), FALSE)
                    /\ CountStars(Drop(Story[i].text, 2)) <= 1

\* a rendered bullet line with a bold pair in it
C8_Witness ==
    /\ Rendered
    /\ \E i \in 1..Len(Kept(text_in)) :
           /\ KindOf(Kept(text_in)[i]) = "BulletStyle"
           /\ CountStars(Kept(text_in)[i]) >= 2
           /\ i <= Len(Story)
           /\ CountStars(Story[i].text) = 0

\* C9: the story is one block per kept line, in the order of the lines, each
\* the block its line gives on its own, then exactly one spacer; blank and
\* refusal lines give no block
C9_OneBlockPerLine ==
    Rendered =>
        LET kept == Kept(text_in)
        IN  /\ Len(Story) = Len(kept) + 1
            /\ Story[Len(Story)] = Spacer
            /\ \A i \in 1..Len(kept) :
                   /\ i <= Len(Story)
                   /\ Story[i].kind = KindOf(kept[i])
                   /\ create_pdf(kept[i]) = <<Story[i], Spacer>>

\* a rendered text with a dropped line between two kept lines of two kinds
C9_Witness ==
    /\ Rendered
    /\ Len(Kept(text_in)) = 2
    /\ Len(Split(text_in, "\n")) = 3
    /\ Len(Story) = 3
    /\ Story[1].kind # Story[2].kind

(***************************************************************************)
(* What the specification says of the workflow.                            *)
(***************************************************************************)
HoldsSummary(ss) == ss.present /\ ss.full_summary_cached # None

DigitValue(c) == (CHOOSE i \in 1..10 : Digit[i] = c) - 1

\* int(s) of a string of decimal digits, -1 for any other string
RECURSIVE StrToInt(_)
StrToInt(s) ==
    IF s = <<>> \/ \E i \in 1..Len(s) : \A d \in 1..10 : Digit[d] # s[i]
    THEN -1
    ELSE IF Len(s) = 1 THEN DigitValue(s[1])
    ELSE 10 * StrToInt(SubSeq(s, 1, Len(s) - 1)) + DigitValue(s[Len(s)])

\* the call of the last run failed: no answer, a status other than 200, or
\* a body that holds no message content
CallFailed ==
    /\ run.requests = 1
    /\ \/ run.response = None
       \/ run.response[1].status_code # 200
       \/ JsonContent(run.response[1].text) = None

\* C1: a run with a file uploaded and a summary in the cache slot sends no
\* request and shows the cached summary; unless it is the regenerate run it
\* renders the cached summary to the PDF and leaves the slot alone
C1_CachedRunCallsNothing ==
    [][(uploaded_file' # None /\ HoldsSummary(session_state)) =>
           /\ run'.requests = 0
           /\ run'.sent = None
           /\ run'.shown = session_state.full_summary_cached
           /\ run'.trigger # "regenerate" =>
                  /\ run'.pdf =
                       Some(create_pdf(session_state.full_summary_cached[1]))
                  /\ session_state' = session_state]_vars

\* a file-name edit served from the cache
C1_Witness ==
    /\ run.trigger = "edit"
    /\ pdf_name # DefaultName
    /\ run.outcome = "done"
    /\ run.requests = 0

\* C2: the regenerate run clears the slot and sends nothing itself; the run
\* that follows it comes before any interaction, sends exactly one request
\* and asks for no further run
C2_RegenerateCallsOnce ==
    [][/\ (run'.trigger = "regenerate" /\ uploaded_file' # None
             /\ HoldsSummary(session_state)) =>
              /\ session_state'.full_summary_cached = None
              /\ run'.requests = 0
              /\ run'.outcome = "rerun"
       /\ run.outcome = "rerun" =>
              /\ run'.trigger = "rerun"
              /\ uploaded_file' = uploaded_file
              /\ pdf_name' = pdf_name
              /\ run'.requests = 1
              /\ run'.outcome # "rerun"]_vars

\* the run after a regenerate has fetched a new summary
C2_Witness ==
    /\ run.trigger = "rerun"
    /\ run.requests = 1
    /\ run.outcome = "done"
    /\ HoldsSummary(session_state)

\* C3: a run that is not the regenerate run leaves a summary in the slot as
\* it is, and only the regenerate run empties the slot
C3_OnlyRegenerateClears ==
    [][HoldsSummary(session_state) =>
           /\ run'.trigger # "regenerate" => session_state' = session_state
           /\ ~HoldsSummary(session_state') => run'.trigger = "regenerate"]_vars

\* the file was removed and the slot still holds the summary
C3_Witness ==
    /\ run.trigger = "remove"
    /\ uploaded_file = None
    /\ HoldsSummary(session_state)

\* C4: for a status other than 200 the returned string is "ERROR: ", the
\* status code in decimal, " - " and the raw body, and is not the message
\* content of the body
C4_ErrorString ==
    (run.response # None /\ run.response[1].status_code # 200) =>
        /\ run.returned # None
        /\ LET v == run.returned[1]
               body == run.response[1].text
               n == Len(v) - Len(body)
           IN  /\ StartsWith(v, <<"E", "R", "R", "O", "R">>)
               /\ n > 10
               /\ SubSeq(v, 1, 7) = <<"E", "R", "R", "O", "R", ":", " ">>
               /\ StrToInt(SubSeq(v, 8, n - 3)) = run.response[1].status_code
               /\ SubSeq(v, n - 2, n) = <<" ", "-", " ">>
               /\ Drop(v, n) = body
               /\ JsonContent(body) # None => v # JsonContent(body)[1]

\* a 201 answer that carries message content
C4_Witness ==
    /\ run.response # None
    /\ run.response[1].status_code = 201
    /\ JsonContent(run.response[1].text) # None
    /\ run.returned # None

\* C5: after a run whose call was answered 200 with message content, the
\* slot holds that content and it is what is shown and rendered
C5_SuccessIsCached ==
    (/\ run.response # None
     /\ run.response[1].status_code = 200
     /\ JsonContent(run.response[1].text) # None) =>
        LET content == JsonContent(run.response[1].text)[1]
        IN  /\ session_state.full_summary_cached = Some(content)
            /\ run.shown = Some(content)
            /\ run.pdf = Some(create_pdf(content))

\* C6: after a run whose call failed the slot is empty, no summary is shown
\* and no PDF is rendered or offered, and for a status other than 200 the
\* error string is what is shown; the slot never holds an error string
C6_FailureIsTerminal ==
    /\ CallFailed =>
           /\ session_state.full_summary_cached = None
           /\ run.shown = None
           /\ run.pdf = None
           /\ run.file_name = None
           /\ run.outcome \in {"stopped", "exception"}
           /\ run.response # None /\ run.response[1].status_code # 200 =>
                  /\ run.error # None
                  /\ run.error = run.returned
                  /\ StartsWith(run.error[1], <<"E", "R", "R", "O", "R">>)
    /\ session_state.full_summary_cached # None =>
           ~StartsWith(session_state.full_summary_cached[1],
                       <<"E", "R", "R", "O", "R">>)

\* a run stopped on a 500 answer
C6_Witness ==
    /\ run.outcome = "stopped"
    /\ run.response # None
    /\ run.response[1].status_code = 500
    /\ run.error # None

\* C10: a run sends at most one request, and sends one exactly when a file
\* is uploaded and the slot holds no summary at its start; a failed call
\* is followed by no run of its own
C10_OneRequestIffEmpty ==
    [][/\ run'.requests \in {0, 1}
       /\ run'.requests = 1 <=>
              (uploaded_file' # None /\ ~HoldsSummary(session_state))
       /\ run'.outcome \in {"stopped", "exception"} =>
              /\ run'.requests = 1
              /\ ~HoldsSummary(session_state')]_vars

\* a mere file-name edit after a failure sent a request that failed again
C10_Witness ==
    /\ run.trigger = "edit"
    /\ run.requests = 1
    /\ run.outcome = "stopped"
    /\ uploaded_file # None

====
